---- MODULE Spec2Model ----
(***************************************************************************)
(* CrediSight-XAI: the credit-risk prediction and explanation service.     *)
(*                                                                         *)
(*   src/api/main.py     the FastAPI application: artifact table, startup  *)
(*                       loader, /predict/* and /explain/xgb handlers      *)
(*   src/api/service.py  the service module: artifact table, loader,       *)
(*                       prediction helpers and _generate_summary          *)
(*   src/api/models.py   the request and response schemas                  *)
(*   src/api/train*.py   the fitting of the preprocessing pipeline and of  *)
(*                       the two classifiers                               *)
(*                                                                         *)
(* Numbers.  Python floats are IEEE-754 binary64: every arithmetic result  *)
(* is rounded to the nearest value with a 53-bit significand, ties to      *)
(* even.  The model keeps that rounding rule and scales the significand    *)
(* down to Prec bits; values are integers, so a value is representable     *)
(* when it is m * 2^e with |m| < 2^Prec.                                   *)
(*                                                                         *)
(* Python values.  An optional value is a sequence of length 0 (None) or 1 *)
(* (the value): the entries of the artifact tables, a nullable field of a  *)
(* request, the default=None of min and max.  A function that may raise    *)
(* returns [raised, value]: raised is "" on a normal return and the        *)
(* exception's class name otherwise.                                       *)
(***************************************************************************)
EXTENDS Integers, Sequences, FiniteSets, TLC

VARIABLES
    artifacts,          \* main.py:18     the application's artifact table
    service_artifacts,  \* service.py:13  the service module's artifact table
    app,                \* main.py:11,26  lifecycle of the FastAPI application
    call,               \* the latest call: operation and arguments
    response            \* what that call produced

vars == <<artifacts, service_artifacts, app, call, response>>

----------------------------------------------------------------------------
(* Bounds of the model *)

\* number of features of the canonical feature order used by the pipeline
NumFeatures == 2

\* SHAP values handed to _generate_summary range over -MaxAbs..MaxAbs
MaxAbs == 2

\* significand width of the scaled-down float format (binary64 has 53)
Prec == 4

----------------------------------------------------------------------------
(* Python numbers *)

Abs(x) == IF x < 0 THEN -x ELSE x

Min(a, b) == IF a <= b THEN a ELSE b

RECURSIVE Pow2(_)
Pow2(n) == IF n = 0 THEN 1 ELSE 2 * Pow2(n - 1)

\* spacing of the representable values around magnitude a
RECURSIVE Quantum(_)
Quantum(a) == IF a < Pow2(Prec) THEN 1 ELSE 2 * Quantum(a \div 2)

\* round-to-nearest, ties-to-even, of the exact value x
fl(x) ==
    LET a  == Abs(x)
        q  == Quantum(a)
        lo == (a \div q) * q
        r  == a - lo
        up == IF 2 * r > q THEN TRUE
              ELSE IF 2 * r < q THEN FALSE
              ELSE (lo \div q) % 2 = 1
        m  == IF up THEN lo + q ELSE lo
    IN  IF x < 0 THEN -m ELSE m

\* float addition: the exact sum, rounded
float_add(x, y) == fl(x + y)

----------------------------------------------------------------------------
(* Python results *)

Return(v) == [raised |-> "", value |-> v]

Raise(e) == [raised |-> e, value |-> ""]

\* raise HTTPException(status_code=500, detail=detail)
HTTPException(detail) == [raised |-> "HTTPException", value |-> detail]

----------------------------------------------------------------------------
(* Python sequences *)

\* s[:n]
Take(s, n) == SubSeq(s, 1, Min(n, Len(s)))

\* sum(xs): starts from 0 and adds the items left to right, rounding each time
RECURSIVE py_sum(_)
py_sum(xs) ==
    IF xs = <<>> THEN 0
    ELSE float_add(py_sum(SubSeq(xs, 1, Len(xs) - 1)), xs[Len(xs)])

\* sep.join(names)
RECURSIVE py_join(_, _)
py_join(sep, names) ==
    IF names = <<>> THEN ""
    ELSE IF Len(names) = 1 THEN names[1]
    ELSE names[1] \o sep \o py_join(sep, Tail(names))

\* min(items, key=shap_value, default=None): the first item of least value
py_min(items) ==
    IF items = <<>> THEN <<>>
    ELSE LET i == CHOOSE i \in 1..Len(items) :
                      /\ \A j \in 1..Len(items) : items[i].shap_value <= items[j].shap_value
                      /\ \A j \in 1..(i - 1) : items[j].shap_value > items[i].shap_value
         IN  <<items[i]>>

\* max(items, key=shap_value, default=None): the first item of greatest value
py_max(items) ==
    IF items = <<>> THEN <<>>
    ELSE LET i == CHOOSE i \in 1..Len(items) :
                      /\ \A j \in 1..Len(items) : items[i].shap_value >= items[j].shap_value
                      /\ \A j \in 1..(i - 1) : items[j].shap_value < items[i].shap_value
         IN  <<items[i]>>

----------------------------------------------------------------------------
(* service.py: _generate_summary *)

\* the number of drivers a narrative names at most
MaxDrivers == 3

\* the longest contribution sequence the model hands to _generate_summary:
\* long enough for a driver list to be cut while the other sign is present
MaxContribs == MaxDrivers + 2

HighLowSignalMessage ==
    "The prediction is slightly above average, but no single strong risk factor was identified."

LowLowSignalMessage ==
    "The prediction is in line with the average; no significant factors were identified."

IsPositive(ex) == ex.shap_value > 0

IsNegative(ex) == ex.shap_value < 0

all_shap_values(explanations) ==
    [i \in 1..Len(explanations) |-> explanations[i].shap_value]

final_log_odds(base_value, explanations) ==
    float_add(base_value, py_sum(all_shap_values(explanations)))

is_high_risk_ge(base_value, explanations) ==
    final_log_odds(base_value, explanations) >= base_value

is_high_risk(base_value, explanations) ==
    final_log_odds(base_value, explanations) > base_value

feature_names_of(drivers) == [i \in 1..Len(drivers) |-> drivers[i].feature]

\* the high-risk branch's driver list
high_drivers_two(explanations) == Take(SelectSeq(explanations, IsPositive), 2)

high_drivers(explanations) == Take(SelectSeq(explanations, IsPositive), MaxDrivers)

mitigator_of(explanations) == py_min(SelectSeq(explanations, IsNegative))

\* the high-risk branch's list formatting; driver_names[-1] of an empty list raises
high_drivers_str(driver_names) ==
    IF Len(driver_names) = 1 THEN Return(driver_names[1])
    ELSE IF Len(driver_names) = 2 THEN Return(py_join(" and ", driver_names))
    ELSE IF driver_names = <<>> THEN Raise("IndexError")
    ELSE Return(py_join(", ", SubSeq(driver_names, 1, Len(driver_names) - 1))
                \o ", and " \o driver_names[Len(driver_names)])

high_risk_summary(explanations) ==
    LET drivers   == high_drivers(explanations)
        mitigator == mitigator_of(explanations)
    IN  IF drivers = <<>> THEN Return(HighLowSignalMessage)
        ELSE LET drivers_str == high_drivers_str(feature_names_of(drivers))
                 summary == "This is a high-risk profile, primarily driven by: "
                            \o drivers_str.value \o "."
             IN  IF drivers_str.raised # "" THEN drivers_str
                 ELSE IF mitigator # <<>>
                 THEN Return(summary \o " While factors like " \o mitigator[1].feature
                             \o " were a positive, "
                             \o "it was not enough to offset the primary risk factors.")
                 ELSE Return(summary)

\* the low-risk branch's driver list
low_drivers_last(explanations) ==
    LET neg == SelectSeq(explanations, IsNegative)
    IN  SubSeq(neg, Len(neg) - Min(MaxDrivers, Len(neg)) + 1, Len(neg))

low_drivers(explanations) == Take(SelectSeq(explanations, IsNegative), MaxDrivers)

risk_factor_of(explanations) == py_max(SelectSeq(explanations, IsPositive))

\* the low-risk branch's list formatting
low_drivers_str_plain(driver_names) ==
    IF Len(driver_names) = 1 THEN Return(driver_names[1])
    ELSE IF Len(driver_names) = 2 THEN Return(py_join(" and ", driver_names))
    ELSE IF driver_names = <<>> THEN Raise("IndexError")
    ELSE Return(py_join(", ", driver_names))

low_drivers_str(driver_names) ==
    IF Len(driver_names) = 1 THEN Return(driver_names[1])
    ELSE IF Len(driver_names) = 2 THEN Return(py_join(" and ", driver_names))
    ELSE IF driver_names = <<>> THEN Raise("IndexError")
    ELSE Return(py_join(", ", SubSeq(driver_names, 1, Len(driver_names) - 1))
                \o ", and " \o driver_names[Len(driver_names)])

low_risk_body(explanations, drivers) ==
    LET risk_factor == risk_factor_of(explanations)
        drivers_str == low_drivers_str(feature_names_of(drivers))
        summary == "This is a low-risk profile, primarily due to positive factors like: "
                   \o drivers_str.value \o "."
    IN  IF drivers_str.raised # "" THEN drivers_str
        ELSE IF risk_factor # <<>>
        THEN Return(summary \o " A minor risk was noted (" \o risk_factor[1].feature
                    \o "), but it was offset by the strong positive factors.")
        ELSE Return(summary)

low_risk_summary_unguarded(explanations) ==
    low_risk_body(explanations, low_drivers(explanations))

low_risk_summary(explanations) ==
    LET drivers == low_drivers(explanations)
    IN  IF drivers = <<>> THEN Return(LowLowSignalMessage)
        ELSE low_risk_body(explanations, drivers)

_generate_summary(base_value, explanations) ==
    IF is_high_risk(base_value, explanations)
    THEN high_risk_summary(explanations)
    ELSE low_risk_summary(explanations)

----------------------------------------------------------------------------
(* Python optional values and truthiness *)

None == <<>>

Some(x) == <<x>>

\* `not x` for None and for the artifact objects (a Pipeline has length 2, the
\* other objects define neither __bool__ nor __len__)
Truthy(x) == x # None

----------------------------------------------------------------------------
(* models.py: the request schema *)

\* the fields of CreditAppFeatures, in declaration order
AllFields ==
    << "ExternalRiskEstimate", "MSinceOldestTradeOpen", "MSinceMostRecentTradeOpen",
       "AverageMInFile", "NumSatisfactoryTrades", "NumTrades60Ever2DerogPubRec",
       "NumTrades90Ever2DerogPubRec", "PercentTradesNeverDelq", "MSinceMostRecentDelq",
       "MaxDelq2PublicRecLast12M", "MaxDelqEver", "NumTotalTrades",
       "NumTradesOpeninLast12M", "PercentInstallTrades", "MSinceMostRecentInqexcl7days",
       "NumInqLast6M", "NumInqLast6Mexcl7days", "NetFractionRevolvingBurden",
       "NetFractionInstallBurden", "NumRevolvingTradesWBalance",
       "NumInstallTradesWBalance", "NumBank2NatlTradesWHighUtilization",
       "PercentTradesWBalance" >>

\* the model keeps the first NumFeatures of them
Fields == SubSeq(AllFields, 1, NumFeatures)

FieldSet == {Fields[i] : i \in 1..NumFeatures}

\* a request body is a JSON object: a sequence of <<key, value>> members with
\* distinct keys, a value being a number <<v>> or null <<>>
BodyKeys(body) == {body[i][1] : i \in 1..Len(body)}

BodyValue(body, key) ==
    LET i == CHOOSE i \in 1..Len(body) : body[i][1] = key
    IN  body[i][2]

\* a field-by-position reading of the body, which the schema does not make
CreditAppFeatures_positional(body) ==
    Return([f \in FieldSet |->
               LET i == CHOOSE i \in 1..NumFeatures : Fields[i] = f
               IN  IF i <= Len(body) THEN body[i][2] ELSE None])

\* CreditAppFeatures(**body): every field is Optional[float] = None, so a field
\* the body does not name takes the default None
CreditAppFeatures(body) ==
    Return([f \in FieldSet |->
               IF f \in BodyKeys(body) THEN BodyValue(body, f) ELSE None])

\* features.model_dump(): the dict of all fields
model_dump(features) == features

----------------------------------------------------------------------------
(* train.py, train_logistic.py: the fitted artifacts *)

\* the columns the preprocessor was fitted on (feature_names_in_)
FeatureOrder == Fields

\* SimpleImputer(strategy='median').statistics_
Medians == [i \in 1..NumFeatures |-> IF i % 3 = 0 THEN 11 ELSE 3]

\* StandardScaler().mean_ and .scale_
Means == [i \in 1..NumFeatures |-> IF i % 3 = 1 THEN 5 ELSE IF i % 3 = 2 THEN 3 ELSE 7]

Stds == [i \in 1..NumFeatures |-> IF i % 3 = 1 THEN 2 ELSE 4]

\* the numbers a request may carry; (v - mean) / std is exact for each of
\* them and for the medians
RawSeq == <<7>>

\* Pipeline.transform of a one-row frame: impute the median, then standardize
transform(row) ==
    [i \in 1..Len(row) |->
        LET x == IF row[i] = None THEN Medians[i] ELSE row[i][1]
        IN  (x - Means[i]) \div Stds[i]]

\* LogisticRegression: coef_ and intercept_
LogisticCoef == [i \in 1..NumFeatures |-> IF i % 2 = 1 THEN 1 ELSE -1]

RECURSIVE Dot(_, _, _)
Dot(w, x, n) == IF n = 0 THEN 0 ELSE Dot(w, x, n - 1) + w[n] * x[n]

logistic_margin(x) == Dot(LogisticCoef, x, Len(x))

\* the boosted trees: a node is a leaf or a split on (feature, threshold)
Leaf(v) == [leaf |-> TRUE, value |-> v]

Split(f, t, l, r) == [leaf |-> FALSE, feature |-> f, threshold |-> t, left |-> l, right |-> r]

Trees ==
    << Split(1, 0, Leaf(-2), Leaf(2)),
       Split(2, 1, Split(1, 0, Leaf(-1), Leaf(1)), Leaf(1)),
       Split(NumFeatures, 1, Leaf(1), Leaf(-1)) >>

\* the leaf a vector is routed to: left when x[feature] < threshold
RECURSIVE tree_output(_, _)
tree_output(node, x) ==
    IF node.leaf THEN node.value
    ELSE IF x[node.feature] < node.threshold THEN tree_output(node.left, x)
    ELSE tree_output(node.right, x)

RECURSIVE sum_trees(_, _)
sum_trees(n, x) == IF n = 0 THEN 0 ELSE sum_trees(n - 1, x) + tree_output(Trees[n], x)

\* the raw margin of the ensemble (base_score 0.5 is a margin of 0)
predict_margin(x) == sum_trees(Len(Trees), x)

\* 1000 / (1 + exp(-m)), rounded, for the margins the model produces
sigmoid(m) ==
    LET c == IF m < -4 THEN -4 ELSE IF m > 4 THEN 4 ELSE m
    IN  <<18, 47, 119, 269, 500, 731, 881, 953, 982>>[c + 5]

\* model.predict_proba(X)[0][1]; a classifier that was constructed and never
\* loaded raises
predict_proba(model, x) ==
    IF model = "LogisticRegression" THEN Return(sigmoid(logistic_margin(x)))
    ELSE IF model = "XGBClassifier" THEN Return(sigmoid(predict_margin(x)))
    ELSE Raise("NotFittedError")

----------------------------------------------------------------------------
(* shap.TreeExplainer over the boosted trees *)

RECURSIVE Fact(_)
Fact(n) == IF n = 0 THEN 1 ELSE n * Fact(n - 1)

RECURSIVE SumOver(_, _)
SumOver(S, f) ==
    IF S = {} THEN 0
    ELSE LET e == CHOOSE e \in S : TRUE
         IN  f[e] + SumOver(S \ {e}, f)

\* the background rows the expectation over unknown features is taken against
Background ==
    { [i \in 1..NumFeatures |-> -1], [i \in 1..NumFeatures |-> 1] }

\* SHAP values are exact multiples of 1 / ShapScale; the model keeps them as
\* integers in that unit
ShapScale == Fact(NumFeatures) * Cardinality(Background)

\* Cardinality(Background) times the expected margin with the features of
\* coalition S fixed to x
coalition_value(S, x) ==
    SumOver(Background,
            [b \in Background |->
                predict_margin([i \in 1..NumFeatures |-> IF i \in S THEN x[i] ELSE b[i]])])

\* the Shapley value of feature i at x, in units of 1 / ShapScale
shapley_value(i, x) ==
    LET others == (1..NumFeatures) \ {i}
    IN  SumOver(SUBSET others,
                [S \in SUBSET others |->
                    Fact(Cardinality(S)) * Fact(NumFeatures - Cardinality(S) - 1)
                    * (coalition_value(S \cup {i}, x) - coalition_value(S, x))])

expected_value == Fact(NumFeatures) * coalition_value({}, [i \in 1..NumFeatures |-> 0])

\* explainer(X): the Explanation object; the handler reads .values as a
\* (sample, feature, class) array and .base_values as a (sample, class) array,
\* class 1 being 'Bad' and class 0 its negation
TreeExplainer_call(x) ==
    [ values      |-> << [i \in 1..NumFeatures |->
                            << -shapley_value(i, x), shapley_value(i, x) >>] >>,
      base_values |-> << << -expected_value, expected_value >> >> ]

----------------------------------------------------------------------------
(* The artifact tables and their loaders *)

EmptyTable ==
    [ preprocessor   |-> None,
      model_logistic |-> None,
      model_xgb      |-> None,
      feature_order  |-> None,
      explainer_xgb  |-> None ]

\* an order of assignment the loaders do not use: the explainer made before
\* the XGBoost model is stored
assign_upto_explainer_early(table, n) ==
    [ preprocessor   |-> IF n >= 1 THEN Some("Pipeline") ELSE table.preprocessor,
      feature_order  |-> IF n >= 2 THEN Some(FeatureOrder) ELSE table.feature_order,
      model_logistic |-> IF n >= 3 THEN Some("LogisticRegression") ELSE table.model_logistic,
      explainer_xgb  |-> IF n >= 4 THEN Some("TreeExplainer") ELSE table.explainer_xgb,
      model_xgb      |-> IF n >= 6 THEN Some("XGBClassifier")
                         ELSE IF n = 5 THEN Some("XGBClassifier()")
                         ELSE table.model_xgb ]

\* the table after the first n assignments of load_artifacts have run, in the
\* order both loaders make them; assignment 4 stores a classifier that
\* load_model has not filled yet, assignment 5 stands for load_model returning
assign_upto(table, n) ==
    [ preprocessor   |-> IF n >= 1 THEN Some("Pipeline") ELSE table.preprocessor,
      feature_order  |-> IF n >= 2 THEN Some(FeatureOrder) ELSE table.feature_order,
      model_logistic |-> IF n >= 3 THEN Some("LogisticRegression") ELSE table.model_logistic,
      model_xgb      |-> IF n >= 5 THEN Some("XGBClassifier")
                         ELSE IF n = 4 THEN Some("XGBClassifier()")
                         ELSE table.model_xgb,
      explainer_xgb  |-> IF n >= 6 THEN Some("TreeExplainer") ELSE table.explainer_xgb ]

LoadComplete == 6

\* main.py load_artifacts: <<n, exception>>, the assignments made before the
\* run ended and the exception that ended it ("" when it ran to the end).
\* joblib.load raises FileNotFoundError for a missing file and other errors
\* for an unreadable one; feature_names_in_, load_model and TreeExplainer
\* raise errors that are not FileNotFoundError
MainLoadOutcomes ==
    { <<0, "FileNotFoundError">>, <<0, "Exception">>,
      <<1, "Exception">>,
      <<2, "FileNotFoundError">>, <<2, "Exception">>,
      <<4, "Exception">>,
      <<5, "Exception">>,
      <<LoadComplete, "">> }

\* service.py load_artifacts: the number of assignments made before the run
\* ended; 3 is a failure of the hot-patch block.  Every exception is caught
ServiceLoadOutcomes == 0..LoadComplete

\* the startup handler: only FileNotFoundError is caught; any other exception
\* leaves the handler and the application does not start
main_load_artifacts ==
    /\ app = "starting"
    /\ \E o \in MainLoadOutcomes :
          /\ artifacts' = assign_upto(artifacts, o[1])
          /\ app' = IF o[2] \in {"", "FileNotFoundError"} THEN "serving"
                    ELSE "startup_failed"
    /\ UNCHANGED <<service_artifacts, call, response>>

load_artifacts ==
    /\ \E n \in ServiceLoadOutcomes :
          service_artifacts' = assign_upto(service_artifacts, n)
    /\ UNCHANGED <<artifacts, app, call, response>>

----------------------------------------------------------------------------
(* The prediction helpers *)

\* pd.DataFrame([data_dict], columns=feature_order): one row, the named
\* columns in that order (every dict key when columns is None), NaN for a
\* missing value
DataFrame(data_dict, columns) ==
    LET cols == IF columns = None THEN Fields ELSE columns[1]
    IN  [i \in 1..Len(cols) |->
            IF cols[i] \in DOMAIN data_dict THEN data_dict[cols[i]] ELSE None]

preprocess_with(table, features) ==
    IF ~Truthy(table.preprocessor)
    THEN HTTPException("Preprocessor not loaded.")
    ELSE Return(transform(DataFrame(model_dump(features), table.feature_order)))

get_prediction_unchecked(table, features, model) ==
    LET transformed_data == preprocess_with(table, features)
    IN  IF transformed_data.raised # "" THEN transformed_data
        ELSE IF model = None THEN Raise("AttributeError")
        ELSE predict_proba(model[1], transformed_data.value)

get_prediction_with(table, features, model) ==
    IF ~Truthy(model)
    THEN HTTPException("Model not loaded.")
    ELSE LET transformed_data == preprocess_with(table, features)
         IN  IF transformed_data.raised # "" THEN transformed_data
             ELSE predict_proba(model[1], transformed_data.value)

\* service.py
_preprocess_data(features) == preprocess_with(service_artifacts, features)

_get_prediction(features, model) == get_prediction_with(service_artifacts, features, model)

----------------------------------------------------------------------------
(* Calls and responses *)

NoCall == [op |-> "none", body |-> <<>>, key |-> "", base_value |-> 0, explanations |-> <<>>]

HttpCall(op, body) ==
    [op |-> op, body |-> body, key |-> "", base_value |-> 0, explanations |-> <<>>]

HelperCall(body, key) ==
    [op |-> "_get_prediction", body |-> body, key |-> key, base_value |-> 0,
     explanations |-> <<>>]

SummaryCall(base_value, explanations) ==
    [op |-> "_generate_summary", body |-> <<>>, key |-> "", base_value |-> base_value,
     explanations |-> explanations]

\* kind is "none" before any call, "pending" while a call runs, the class of
\* the returned object, or the class of the exception that left the call;
\* detail is the text the response carries (an exception's detail, a returned
\* string)
Response(kind, detail, prob_default, base_value, explanations) ==
    [kind |-> kind, detail |-> detail, prob_default |-> prob_default,
     base_value |-> base_value, explanations |-> explanations]

NoResponse == Response("none", "", 0, 0, <<>>)

Pending == Response("pending", "", 0, 0, <<>>)

Failure(r) == Response(r.raised, r.value, 0, 0, <<>>)

PredictionResponse(r) ==
    IF r.raised # "" THEN Failure(r) ELSE Response("PredictionResponse", "", r.value, 0, <<>>)

ExplanationResponse(base_value, explanations) ==
    Response("ExplanationResponse", "", 0, base_value, explanations)

\* models.py: the fields of ExplanationResponse
ExplanationResponseFields == {"base_value", "explanations"}

FeatureExplanation(feature, shap_value) == [feature |-> feature, shap_value |-> shap_value]

----------------------------------------------------------------------------
(* main.py: the handlers *)

\* the names main.py binds at module level: its imports (line 8, which would
\* import FeatureExplanation, is a comment) and its own definitions
MainGlobals ==
    { "joblib", "pd", "xgb", "shap", "FastAPI", "HTTPException", "List",
      "CreditAppFeatures", "PredictionResponse", "ExplanationResponse",
      "app", "artifacts", "load_artifacts", "_preprocess_data", "_get_prediction",
      "root", "predict_logistic", "predict_xgb", "explain_xgb" }

main_preprocess_data(features) == preprocess_with(artifacts, features)

main_get_prediction(features, model) == get_prediction_with(artifacts, features, model)

predict_logistic(features) ==
    PredictionResponse(main_get_prediction(features, artifacts.model_logistic))

predict_xgb(features) ==
    PredictionResponse(main_get_prediction(features, artifacts.model_xgb))

\* zip(a, b): as long as the shorter one
zip(a, b) == [i \in 1..Min(Len(a), Len(b)) |-> <<a[i], b[i]>>]

\* list.sort(key=lambda x: abs(x.shap_value), reverse=True): a stable sort,
\* items of equal key keep their order
RECURSIVE sort_by_abs_desc(_)
sort_by_abs_desc(xs) ==
    IF xs = <<>> THEN <<>>
    ELSE LET e      == xs[Len(xs)]
             sorted == sort_by_abs_desc(SubSeq(xs, 1, Len(xs) - 1))
             k      == Cardinality({i \in 1..Len(sorted) :
                                      Abs(sorted[i].shap_value) >= Abs(e.shap_value)})
         IN  SubSeq(sorted, 1, k) \o <<e>> \o SubSeq(sorted, k + 1, Len(sorted))

explain_xgb(features) ==
    IF ~Truthy(artifacts.explainer_xgb)
    THEN Failure(HTTPException("SHAP Explainer not loaded."))
    ELSE LET transformed_data == main_preprocess_data(features)
         IN  IF transformed_data.raised # "" THEN Failure(transformed_data)
             ELSE LET shap_explanation == TreeExplainer_call(transformed_data.value)
                      shap_values_for_class_1 ==
                          [i \in 1..Len(shap_explanation.values[1]) |->
                              shap_explanation.values[1][i][2]]
                      base_value == shap_explanation.base_values[1][2]
                      feature_names ==
                          IF artifacts.feature_order = None THEN <<>>
                          ELSE artifacts.feature_order[1]
                      pairs == zip(feature_names, shap_values_for_class_1)
                      explanations ==
                          [i \in 1..Len(pairs) |-> FeatureExplanation(pairs[i][1], pairs[i][2])]
                  IN  IF artifacts.feature_order = None THEN Failure(Raise("TypeError"))
                      ELSE IF pairs # <<>> /\ "FeatureExplanation" \notin MainGlobals
                      THEN Failure(Raise("NameError"))
                      ELSE ExplanationResponse(base_value, sort_by_abs_desc(explanations))

----------------------------------------------------------------------------
(* The inputs the model draws *)

\* a request body names each field at most once, in field order here: a
\* field is absent (0), null (1) or one of the numbers of RawSeq
BodyOf(c) ==
    LET named == SelectSeq([i \in 1..NumFeatures |-> i], LAMBDA i : c[i] # 0)
    IN  [k \in 1..Len(named) |->
            << Fields[named[k]],
               IF c[named[k]] = 1 THEN None ELSE Some(RawSeq[c[named[k]] - 1]) >>]

Bodies == {BodyOf(c) : c \in [1..NumFeatures -> 0..(Len(RawSeq) + 1)]}

ModelKeys == {"model_logistic", "model_xgb"}

\* a contribution sequence: the first n fields, in field order or in reverse
\* field order, with the values v
ContribsOf(n, v, reversed) ==
    [i \in 1..n |->
        FeatureExplanation(AllFields[IF reversed THEN n + 1 - i ELSE i], v[i])]

\* base values: small ones, and ones whose neighbours are more than 1 apart
BaseValues == {0, Pow2(Prec), -Pow2(Prec), Pow2(Prec + 1)}

----------------------------------------------------------------------------
(* The application *)

Init ==
    /\ artifacts = EmptyTable
    /\ service_artifacts = EmptyTable
    /\ app = "starting"
    /\ call = NoCall
    /\ response = NoResponse

\* FastAPI builds the CreditAppFeatures argument from the body, then runs the
\* handler
Handle(op, body) ==
    LET features == CreditAppFeatures(body)
    IN  IF features.raised # "" THEN Failure(features)
        ELSE IF op = "predict_logistic" THEN predict_logistic(features.value)
        ELSE IF op = "predict_xgb" THEN predict_xgb(features.value)
        ELSE explain_xgb(features.value)

post_predict_logistic ==
    /\ app = "serving"
    /\ \E body \in Bodies :
          /\ call' = HttpCall("predict_logistic", body)
          /\ response' = Handle("predict_logistic", body)
    /\ UNCHANGED <<artifacts, service_artifacts, app>>

post_predict_xgb ==
    /\ app = "serving"
    /\ \E body \in Bodies :
          /\ call' = HttpCall("predict_xgb", body)
          /\ response' = Handle("predict_xgb", body)
    /\ UNCHANGED <<artifacts, service_artifacts, app>>

post_explain_xgb ==
    /\ app = "serving"
    /\ \E body \in Bodies :
          /\ call' = HttpCall("explain_xgb", body)
          /\ response' = Handle("explain_xgb", body)
    /\ UNCHANGED <<artifacts, service_artifacts, app>>

\* a caller of the service module: _get_prediction(features, artifacts[key])
call_get_prediction ==
    /\ \E body \in Bodies, key \in ModelKeys :
          LET r == _get_prediction(CreditAppFeatures(body).value, service_artifacts[key])
          IN  /\ call' = HelperCall(body, key)
              /\ response' = IF r.raised # "" THEN Failure(r)
                             ELSE Response("float", "", r.value, 0, <<>>)
    /\ UNCHANGED <<artifacts, service_artifacts, app>>

Next ==
    \/ main_load_artifacts
    \/ load_artifacts
    \/ post_predict_logistic
    \/ post_predict_xgb
    \/ post_explain_xgb
    \/ call_get_prediction

Spec == Init /\ [][Next]_vars

----------------------------------------------------------------------------
(* _generate_summary as a function of its arguments: every base value of    *)
(* BaseValues and every contribution sequence of up to MaxContribs features *)
(* with values in -MaxAbs..MaxAbs                                           *)

InitSummary ==
    /\ artifacts = EmptyTable
    /\ service_artifacts = EmptyTable
    /\ app = "starting"
    /\ \E b \in BaseValues, n \in 0..MaxContribs, r \in BOOLEAN :
          \E v \in [1..n -> (-MaxAbs)..MaxAbs] :
             call = SummaryCall(b, ContribsOf(n, v, r))
    /\ response = Pending

call_generate_summary ==
    /\ call.op = "_generate_summary"
    /\ response = Pending
    /\ LET r == _generate_summary(call.base_value, call.explanations)
       IN  response' = IF r.raised # "" THEN Failure(r)
                       ELSE Response("str", r.value, 0, 0, <<>>)
    /\ UNCHANGED <<artifacts, service_artifacts, app, call>>

NextSummary == call_generate_summary

SpecSummary == InitSummary /\ [][NextSummary]_vars

----------------------------------------------------------------------------
(* Reading a narrative *)

HighPrefix == "This is a high-risk profile, primarily driven by: "

LowPrefix == "This is a low-risk profile, primarily due to positive factors like: "

StartsWith(text, prefix) ==
    /\ Len(text) >= Len(prefix)
    /\ SubSeq(text, 1, Len(prefix)) = prefix

\* the position of the first "." at or after position i (no feature name holds one)
RECURSIVE FirstDot(_, _)
FirstDot(text, i) ==
    IF i > Len(text) THEN i
    ELSE IF SubSeq(text, i, i) = "." THEN i
    ELSE FirstDot(text, i + 1)

\* the driver list of a narrative that starts with prefix
DriverPart(text, prefix) ==
    SubSeq(text, Len(prefix) + 1, FirstDot(text, Len(prefix) + 1) - 1)

\* what follows the driver list and its "."
AfterDrivers(text, prefix) ==
    SubSeq(text, FirstDot(text, Len(prefix) + 1) + 1, Len(text))

SummaryDone == call.op = "_generate_summary" /\ response.kind # "pending"

SummaryReturned == SummaryDone /\ response.kind = "str"

TookHighBranch ==
    /\ SummaryReturned
    /\ \/ StartsWith(response.detail, HighPrefix)
       \/ response.detail = HighLowSignalMessage

TookLowBranch ==
    /\ SummaryReturned
    /\ \/ StartsWith(response.detail, LowPrefix)
       \/ response.detail = LowLowSignalMessage

\* the contributions of the call, by position
ValueAt(i) == call.explanations[i].shap_value

NameAt(i) == call.explanations[i].feature

Positions == 1..Len(call.explanations)

PositivePositions == {i \in Positions : ValueAt(i) > 0}

NegativePositions == {i \in Positions : ValueAt(i) < 0}

\* the exact sum of the contribution values
RECURSIVE ExactSum(_)
ExactSum(n) == IF n = 0 THEN 0 ELSE ExactSum(n - 1) + ValueAt(n)

ContributionSum == ExactSum(Len(call.explanations))

\* the j-th position of P in list order
NthOf(P, j) == CHOOSE p \in P : Cardinality({q \in P : q < p}) = j - 1

\* the names at the first MaxDrivers positions of P, in list order
FirstNames(P) ==
    [j \in 1..Min(MaxDrivers, Cardinality(P)) |-> NameAt(NthOf(P, j))]

\* the list formatting rule, case by case
JoinRule(names) ==
    IF Len(names) = 1 THEN names[1]
    ELSE IF Len(names) = 2 THEN names[1] \o " and " \o names[2]
    ELSE names[1] \o ", " \o names[2] \o ", and " \o names[3]

\* the contributions are ranked by descending absolute value
Ranked ==
    \A i, j \in Positions : i < j => Abs(ValueAt(i)) >= Abs(ValueAt(j))

MitigatorSentence(name) ==
    " While factors like " \o name
    \o " were a positive, it was not enough to offset the primary risk factors."

RiskFactorSentence(name) ==
    " A minor risk was noted (" \o name
    \o "), but it was offset by the strong positive factors."

----------------------------------------------------------------------------
(* C4 *)

----------------------------------------------------------------------------
(* C5 *)

\* C5: in the high-risk branch the narrative names exactly the first
\* min(3, k) positive contributions in list order, and the mitigator sentence
\* follows exactly when some contribution is negative, naming a contribution
\* of minimum value.
C5_HighRiskDrivers ==
    TookHighBranch =>
        /\ PositivePositions # {}
        /\ DriverPart(response.detail, HighPrefix) = JoinRule(FirstNames(PositivePositions))
        /\ IF NegativePositions = {}
           THEN AfterDrivers(response.detail, HighPrefix) = ""
           ELSE \E m \in NegativePositions :
                   /\ \A i \in Positions : ValueAt(m) <= ValueAt(i)
                   /\ AfterDrivers(response.detail, HighPrefix) = MitigatorSentence(NameAt(m))

\* a high-risk narrative for more than three positive contributions and a
\* negative one
C5_Witness ==
    /\ TookHighBranch
    /\ Cardinality(PositivePositions) > MaxDrivers
    /\ NegativePositions # {}

----------------------------------------------------------------------------
(* C6 *)

\* C6: in the low-risk branch, for contributions ranked by descending
\* absolute value, the narrative names min(3, k) negative contributions, none
\* of them less negative than a negative contribution it leaves out, and
\* notes a most-positive contribution as the minor risk exactly when a
\* positive one exists; with no negative contribution the narrative is the
\* fixed low-signal message.
C6_LowRiskDrivers ==
    (TookLowBranch /\ Ranked) =>
        IF NegativePositions = {}
        THEN response.detail = LowLowSignalMessage
        ELSE LET m      == Min(MaxDrivers, Cardinality(NegativePositions))
                 chosen == {NthOf(NegativePositions, j) : j \in 1..m}
             IN  /\ DriverPart(response.detail, LowPrefix)
                        = JoinRule(FirstNames(NegativePositions))
                 /\ \A i \in chosen, j \in NegativePositions \ chosen :
                        ValueAt(i) <= ValueAt(j)
                 /\ IF PositivePositions = {}
                    THEN AfterDrivers(response.detail, LowPrefix) = ""
                    ELSE \E r \in PositivePositions :
                            /\ \A i \in Positions : ValueAt(r) >= ValueAt(i)
                            /\ AfterDrivers(response.detail, LowPrefix)
                                   = RiskFactorSentence(NameAt(r))

\* a low-risk narrative for ranked contributions with more than three
\* negative ones of different values and a positive one
C6_Witness ==
    /\ TookLowBranch
    /\ Ranked
    /\ Cardinality(NegativePositions) > MaxDrivers
    /\ \E i, j \in NegativePositions : ValueAt(i) # ValueAt(j)
    /\ PositivePositions # {}

----------------------------------------------------------------------------
(* C7 *)

\* the driver list `part` is the names d in the stated format
FormattedAs(part, d) ==
    /\ Len(d) \in 1..MaxDrivers
    /\ Len(d) = 1 => part = d[1]
    /\ Len(d) = 2 => part = d[1] \o " and " \o d[2]
    /\ Len(d) = 3 => part = d[1] \o ", " \o d[2] \o ", and " \o d[3]

\* C7: in both branches the driver list is formatted by one rule, the names
\* in list order: one name as itself, two as "A and B", three as
\* "A, B, and C".
C7_ListFormatting ==
    SummaryReturned =>
        /\ StartsWith(response.detail, HighPrefix) =>
               FormattedAs(DriverPart(response.detail, HighPrefix),
                           FirstNames(PositivePositions))
        /\ StartsWith(response.detail, LowPrefix) =>
               FormattedAs(DriverPart(response.detail, LowPrefix),
                           FirstNames(NegativePositions))

\* a low-risk narrative naming three drivers that are not in field order
C7_Witness ==
    /\ SummaryReturned
    /\ StartsWith(response.detail, LowPrefix)
    /\ Cardinality(NegativePositions) >= MaxDrivers
    /\ NameAt(1) # AllFields[1]

----------------------------------------------------------------------------
(* C8 *)

\* C8: _generate_summary is total: for every base value and every
\* contribution sequence it returns a non-empty string and raises nothing.
C8_SummaryTotal ==
    SummaryDone => (response.kind = "str" /\ Len(response.detail) > 0)

\* the call with no contributions has returned the fixed low-signal message
C8_Witness ==
    /\ SummaryDone
    /\ call.explanations = <<>>
    /\ response.kind = "str"
    /\ response.detail = LowLowSignalMessage

----------------------------------------------------------------------------
(* The explanation endpoint: C1, C2, C3 *)

HttpOps == {"predict_logistic", "predict_xgb", "explain_xgb"}

\* every entry of the application's table is set and filled
AllLoaded == artifacts = assign_upto(EmptyTable, LoadComplete)

\* the latest call is an /explain/xgb request served with all artifacts
\* loaded (the application's table does not change once it serves)
ExplainServed == call.op = "explain_xgb" /\ AllLoaded

\* the preprocessed vector of the latest call's body
CallVector ==
    transform(DataFrame(model_dump(CreditAppFeatures(call.body).value), Some(FeatureOrder)))

RECURSIVE SumValues(_, _)
SumValues(explanations, n) ==
    IF n = 0 THEN 0 ELSE SumValues(explanations, n - 1) + explanations[n].shap_value

\* the position of a feature in the canonical order
OrderIndex(feature) == CHOOSE i \in 1..Len(FeatureOrder) : FeatureOrder[i] = feature

\* C1: the explanation an explain call returns satisfies base_value + sum of
\* the contribution values = the ensemble's raw margin for the same vector
\* (both sides in units of 1 / ShapScale).
C1_Exactness ==
    ExplainServed =>
        /\ response.kind = "ExplanationResponse"
        /\ Len(response.explanations) = NumFeatures
        /\ response.base_value + SumValues(response.explanations, Len(response.explanations))
               = ShapScale * predict_margin(CallVector)

\* C2: the contributions an explain call returns are sorted by descending
\* absolute value, and contributions of equal absolute value are in
\* canonical feature order.
C2_RankingStable ==
    ExplainServed =>
        /\ response.kind = "ExplanationResponse"
        /\ \A i, j \in 1..Len(response.explanations) :
              i < j =>
                 LET a == response.explanations[i]
                     b == response.explanations[j]
                 IN  \/ Abs(a.shap_value) > Abs(b.shap_value)
                     \/ /\ Abs(a.shap_value) = Abs(b.shap_value)
                        /\ OrderIndex(a.feature) < OrderIndex(b.feature)

\* C3: with all artifacts loaded an explain call returns an assembled result:
\* the base value, the ranked contributions, and the narrative that
\* _generate_summary produces from that base value and that sequence.
C3_AssembledResult ==
    ExplainServed =>
        /\ response.kind = "ExplanationResponse"
        /\ "narrative" \in ExplanationResponseFields
        /\ response.detail
               = _generate_summary(response.base_value, response.explanations).value

----------------------------------------------------------------------------
(* C9 *)

NotReadyDetails ==
    {"Preprocessor not loaded.", "Model not loaded.", "SHAP Explainer not loaded."}

\* the response is the NotReady error: the HTTPException the guards raise
IsNotReady(r) == r.kind = "HTTPException" /\ r.detail \in NotReadyDetails

\* the entries a call reads, and the table it reads them from
UsedEntries(c) ==
    IF c.op = "predict_logistic" THEN {"model_logistic", "preprocessor", "feature_order"}
    ELSE IF c.op = "predict_xgb" THEN {"model_xgb", "preprocessor", "feature_order"}
    ELSE IF c.op = "explain_xgb" THEN {"explainer_xgb", "preprocessor", "feature_order"}
    ELSE IF c.op = "_get_prediction" THEN {c.key, "preprocessor", "feature_order"}
    ELSE {}

TableOf(c) == IF c.op \in HttpOps THEN artifacts ELSE service_artifacts

UsesUnset(c) == \E k \in UsedEntries(c) : TableOf(c)[k] = None

----------------------------------------------------------------------------
(* C10 *)

\* C10: a predict or explain call whose body lacks a field's key ends in the
\* SchemaMismatch error and returns no result.
C10_SchemaMismatch ==
    ( /\ call.op \in HttpOps
      /\ AllLoaded
      /\ BodyKeys(call.body) # FieldSet )
    => response.kind = "SchemaMismatch"

----------------------------------------------------------------------------
(* _preprocess_data as an operation of the service module: the table is     *)
(* whatever the loads so far have left, the record is any JSON object over  *)
(* the fields, with its keys in any order                                   *)

\* the orders in which a body may list the fields
KeyOrders ==
    {p \in [1..NumFeatures -> 1..NumFeatures] :
        \A i, j \in 1..NumFeatures : p[i] = p[j] => i = j}

\* the body that names the fields c marks (0 absent, 1 null, else a number of
\* RawSeq), listed in the order p
BodyIn(c, p) ==
    LET named == SelectSeq(p, LAMBDA i : c[i] # 0)
    IN  [k \in 1..Len(named) |->
            << Fields[named[k]],
               IF c[named[k]] = 1 THEN None ELSE Some(RawSeq[c[named[k]] - 1]) >>]

PermutedBodies ==
    {BodyIn(c, p) : c \in [1..NumFeatures -> 0..(Len(RawSeq) + 1)], p \in KeyOrders}

PreprocessCall(body) ==
    [op |-> "_preprocess_data", body |-> body, key |-> "", base_value |-> 0,
     explanations |-> <<>>]

\* the array transform returns: one row
ArrayResponse(row) ==
    [kind |-> "ndarray", detail |-> "", prob_default |-> 0, base_value |-> 0,
     explanations |-> <<>>, row |-> row]

\* what _preprocess_data gives for a body, as a response
PreprocessResponse(body) ==
    LET r == _preprocess_data(CreditAppFeatures(body).value)
    IN  IF r.raised # "" THEN Failure(r) ELSE ArrayResponse(r.value)

\* a caller of the service module: _preprocess_data(CreditAppFeatures(**body))
call_preprocess_data ==
    /\ \E body \in PermutedBodies :
          /\ call' = PreprocessCall(body)
          /\ response' = PreprocessResponse(body)
    /\ UNCHANGED <<artifacts, service_artifacts, app>>

NextPreprocess ==
    \/ load_artifacts
    \/ call_preprocess_data

SpecPreprocess == Init /\ [][NextPreprocess]_vars

----------------------------------------------------------------------------
(* C11 *)

\* the record's value for a name: missing when the key is absent or null
RecordValue(body, name) ==
    IF name \in BodyKeys(body) THEN BodyValue(body, name) ELSE None

\* two bodies are the same record: the same keys with the same values
SameRecord(a, b) ==
    /\ BodyKeys(a) = BodyKeys(b)
    /\ \A k \in BodyKeys(a) : BodyValue(a, k) = BodyValue(b, k)

\* (v - mean_i) / std_i for the record's value of the i-th name of the
\* canonical order, the median standing in for a missing value
StandardizedEntry(body, i) ==
    LET v == RecordValue(body, FeatureOrder[i])
        x == IF v = None THEN Medians[i] ELSE v[1]
    IN  (x - Means[i]) \div Stds[i]

\* C11: a _preprocess_data call made with the preprocessor loaded returns a
\* vector with one entry per name of the canonical feature order, entry i
\* being (v - mean_i) / std_i for the record's value v of the i-th name, or
\* for median_i when that value is missing; every body that is the same
\* record with its keys in another order gives the same vector.
C11_PreprocessedVector ==
    [][ ( /\ <<call, response>>' # <<call, response>>
          /\ call'.op = "_preprocess_data"
          /\ service_artifacts.preprocessor # None )
        => /\ response'.kind = "ndarray"
           /\ Len(response'.row) = Len(FeatureOrder)
           /\ \A i \in 1..Len(FeatureOrder) :
                 response'.row[i] = StandardizedEntry(call'.body, i)
           /\ \A b \in PermutedBodies :
                 SameRecord(b, call'.body) => PreprocessResponse(b) = response' ]_vars

\* a body that lists the second name of the canonical order first, gives it a
\* number and gives the first name null, was preprocessed: entry 1 is the
\* standardized median, entry 2 the standardized number
C11_Witness ==
    /\ call.op = "_preprocess_data"
    /\ Len(call.body) = 2
    /\ call.body[1][1] = FeatureOrder[2]
    /\ call.body[1][2] # None
    /\ call.body[2] = <<FeatureOrder[1], None>>
    /\ response.kind = "ndarray"
    /\ response.row[1] = (Medians[1] - Means[1]) \div Stds[1]
    /\ response.row[2] = (call.body[1][2][1] - Means[2]) \div Stds[2]

----------------------------------------------------------------------------
(* C12 *)

\* what the explainer entry of a table rests on
ExplainerRestsOn == {"preprocessor", "feature_order", "model_xgb"}

\* C12: after any sequence of load_artifacts runs, each ending after any
\* number of its assignments, in both artifact tables: if explainer_xgb is
\* set, then preprocessor, feature_order and model_xgb are set too.
C12_ExplainerSetLast ==
    \A table \in {artifacts, service_artifacts} :
        table.explainer_xgb # None =>
            \A k \in ExplainerRestsOn : table[k] # None

\* the service table after a complete load followed by a load that failed in
\* load_model: the explainer of the first run is still there, next to the
\* classifier the second run stored
C12_Witness ==
    /\ service_artifacts.explainer_xgb # None
    /\ service_artifacts.model_xgb = Some("XGBClassifier()")
    /\ service_artifacts.preprocessor # None
    /\ service_artifacts.feature_order # None

====
